---- MODULE Spec2Model ----
(***************************************************************************)
(* A model of package unit (github.com/google/go-units): the quantity      *)
(* types Length, Area, Speed and Temperature, each a float64 in its base   *)
(* SI unit, their unit constants, accessors, constructors and formatting.  *)
(*                                                                         *)
(* float64 is modelled bit-exactly: a value is a sign, a 53-bit            *)
(* significand and a binary exponent, and every arithmetic operation       *)
(* rounds to nearest, ties to even, as IEEE 754 binary64 does.             *)
(* Significands are natural numbers held as little-endian sequences of     *)
(* limbs, because they exceed the range of the checker's integers.         *)
(***************************************************************************)
EXTENDS Integers, Sequences, FiniteSets, TLC

(***************************************************************************)
(* Natural numbers of arbitrary size: <<l1, ..., ln>> is the sum of        *)
(* l_i * Base^(i-1), with ln # 0; <<>> is zero.                            *)
(***************************************************************************)
LimbBits == 15
Base == 32768

RECURSIVE Pow2(_)
Pow2(k) == IF k = 0 THEN 1 ELSE 2 * Pow2(k - 1)

Limb(a, i) == IF i <= Len(a) THEN a[i] ELSE 0

Max(x, y) == IF x >= y THEN x ELSE y

RECURSIVE BNorm(_)
BNorm(a) ==
  IF a = <<>> THEN <<>>
  ELSE IF a[Len(a)] = 0 THEN BNorm(SubSeq(a, 1, Len(a) - 1)) ELSE a

RECURSIVE BFromInt(_)
BFromInt(n) == IF n = 0 THEN <<>> ELSE <<n % Base>> \o BFromInt(n \div Base)

RECURSIVE BCmpFrom(_, _, _)
BCmpFrom(a, b, i) ==
  IF i = 0 THEN 0
  ELSE IF a[i] < b[i] THEN -1
  ELSE IF a[i] > b[i] THEN 1
  ELSE BCmpFrom(a, b, i - 1)

BCmp(a, b) ==
  IF Len(a) < Len(b) THEN -1
  ELSE IF Len(a) > Len(b) THEN 1
  ELSE BCmpFrom(a, b, Len(a))

RECURSIVE BAddC(_, _, _, _)
BAddC(a, b, i, c) ==
  IF i > Max(Len(a), Len(b)) THEN (IF c = 0 THEN <<>> ELSE <<c>>)
  ELSE LET s == Limb(a, i) + Limb(b, i) + c
       IN  <<s % Base>> \o BAddC(a, b, i + 1, s \div Base)

BAdd(a, b) == BAddC(a, b, 1, 0)

RECURSIVE BSubC(_, _, _, _)
BSubC(a, b, i, c) ==
  IF i > Len(a) THEN <<>>
  ELSE LET s == a[i] - Limb(b, i) - c
       IN  IF s < 0 THEN <<s + Base>> \o BSubC(a, b, i + 1, 1)
           ELSE <<s>> \o BSubC(a, b, i + 1, 0)

\* a - b, for a >= b
BSub(a, b) == BNorm(BSubC(a, b, 1, 0))

RECURSIVE BMulSmallC(_, _, _, _)
BMulSmallC(a, d, i, c) ==
  IF i > Len(a) THEN (IF c = 0 THEN <<>> ELSE <<c>>)
  ELSE LET s == a[i] * d + c
       IN  <<s % Base>> \o BMulSmallC(a, d, i + 1, s \div Base)

\* a * d, for 0 <= d < Base
BMulSmall(a, d) == IF d = 0 THEN <<>> ELSE BMulSmallC(a, d, 1, 0)

Zeros(n) == [i \in 1..n |-> 0]

RECURSIVE BMulFrom(_, _, _)
BMulFrom(a, b, i) ==
  IF i > Len(b) THEN <<>>
  ELSE BAdd(IF b[i] = 0 THEN <<>> ELSE Zeros(i - 1) \o BMulSmall(a, b[i]),
            BMulFrom(a, b, i + 1))

BMul(a, b) == BMulFrom(a, b, 1)

\* a * 2^k
BShl(a, k) ==
  IF a = <<>> THEN <<>>
  ELSE Zeros(k \div LimbBits) \o BMulSmall(a, Pow2(k % LimbBits))

RECURSIVE BDivSmallC(_, _, _, _)
BDivSmallC(a, d, i, r) ==
  IF i = 0 THEN <<>>
  ELSE LET cur == r * Base + a[i]
       IN  BDivSmallC(a, d, i - 1, cur % d) \o <<cur \div d>>

\* floor(a / d), for 0 < d < Base
BDivSmall(a, d) == BNorm(BDivSmallC(a, d, Len(a), 0))

\* floor(a / 2^k)
BShr(a, k) ==
  IF k \div LimbBits >= Len(a) THEN <<>>
  ELSE BDivSmall(SubSeq(a, k \div LimbBits + 1, Len(a)), Pow2(k % LimbBits))

RECURSIVE IntBitLen(_)
IntBitLen(n) == IF n = 0 THEN 0 ELSE 1 + IntBitLen(n \div 2)

BBitLen(a) ==
  IF a = <<>> THEN 0 ELSE (Len(a) - 1) * LimbBits + IntBitLen(a[Len(a)])

BIsOdd(a) == a # <<>> /\ a[1] % 2 = 1

\* bit k of a (bit 0 is the least significant)
BBit(a, k) == BIsOdd(BShr(a, k))

\* whether a is a multiple of 2^k
BLowZero(a, k) == BShl(BShr(a, k), k) = a

(***************************************************************************)
(* float64.  A value is [k, s, m, e]: k is "fin", "inf" or "nan", s the    *)
(* sign bit, and a finite value is (-1)^s * m * 2^e, where m has exactly   *)
(* MantBits bits (a normal number) or e = MinExp and m has fewer (a        *)
(* subnormal number or, with m = <<>>, a zero).                            *)
(***************************************************************************)
MantBits == 53
MinExp == -1074
MaxExp == 971
DivDigits == 4
AddGap == 64

FZero(s) == [k |-> "fin", s |-> s, m |-> <<>>, e |-> MinExp]
FInf(s) == [k |-> "inf", s |-> s, m |-> <<>>, e |-> 0]
FNaN == [k |-> "nan", s |-> 0, m |-> <<>>, e |-> 0]

IsNaN(a) == a.k = "nan"
IsInf(a) == a.k = "inf"
IsZero(a) == a.k = "fin" /\ a.m = <<>>
IsFinite(a) == a.k = "fin"

FPack(s, m, e) ==
  IF m = <<>> THEN FZero(s)
  ELSE IF e > MaxExp THEN FInf(s)
  ELSE [k |-> "fin", s |-> s, m |-> m, e |-> e]

\* The float64 nearest to (-1)^s * (n + f) * 2^e, ties to even, where n > 0,
\* 0 <= f < 1 and sticky tells whether f > 0 (then n has more than MantBits + 1 bits).
FRoundCarry(s, m, e) ==
  IF BBitLen(m) > MantBits THEN FPack(s, BShr(m, 1), e + 1) ELSE FPack(s, m, e)

\* q the bits kept, half the first bit dropped, rest whether more follows
FRoundKeep(s, q, half, rest, e) ==
  FRoundCarry(s, IF half /\ (rest \/ BIsOdd(q)) THEN BAdd(q, <<1>>) ELSE q, e)

FRoundDrop(s, n, e, sticky, drop) ==
  IF drop <= 0 THEN FPack(s, BShl(n, -drop), e + drop)
  ELSE FRoundKeep(s, BShr(n, drop), BBit(n, drop - 1),
                  sticky \/ ~BLowZero(n, drop - 1), e + drop)

FRoundLen(s, n, e, sticky, d0) ==
  FRoundDrop(s, n, e, sticky, IF e + d0 < MinExp THEN MinExp - e ELSE d0)

FRound(s, n, e, sticky) == FRoundLen(s, n, e, sticky, BBitLen(n) - MantBits)

FromInt(n) ==
  IF n = 0 THEN FZero(0)
  ELSE FRound(IF n < 0 THEN 1 ELSE 0, BFromInt(IF n < 0 THEN -n ELSE n), 0, FALSE)

FNeg(a) == IF IsNaN(a) THEN a ELSE [a EXCEPT !.s = 1 - @]

FMul(a, b) ==
  IF IsNaN(a) \/ IsNaN(b) THEN FNaN
  ELSE LET s == (a.s + b.s) % 2
       IN  IF IsInf(a) \/ IsInf(b)
             THEN (IF IsZero(a) \/ IsZero(b) THEN FNaN ELSE FInf(s))
           ELSE IF IsZero(a) \/ IsZero(b) THEN FZero(s)
           ELSE FRound(s, BMul(a.m, b.m), a.e + b.e, FALSE)

\* One digit of long division in base Base: <<floor(r / d), r mod d>>, for d
\* whose top limb is at least Base / 2 and r < d * Base.  The estimate from the
\* top limbs is at most two too large.
RECURSIVE BDigitFix(_, _, _)
BDigitTry(r, d, qh, t) ==
  IF BCmp(t, r) > 0 THEN BDigitFix(r, d, qh - 1) ELSE <<qh, BSub(r, t)>>

BDigitFix(r, d, qh) == BDigitTry(r, d, qh, BMulSmall(d, qh))

BDigitEst(r, d, est) == BDigitFix(r, d, IF est >= Base THEN Base - 1 ELSE est)

BDigit(r, d) ==
  BDigitEst(r, d, (Limb(r, Len(d) + 1) * Base + Limb(r, Len(d))) \div d[Len(d)])

\* n more digits of the quotient q of a long division with remainder r < d:
\* <<quotient, remainder>>.
RECURSIVE BDivDigits(_, _, _, _)
BDivStep(st, d, n, q) == BDivDigits(st[2], d, n - 1, <<st[1]>> \o q)

BDivDigits(r, d, n, q) ==
  IF n = 0 THEN <<q, r>>
  ELSE BDivStep(BDigit(IF r = <<>> THEN <<>> ELSE <<0>> \o r, d), d, n, q)

\* The float64 nearest to (-1)^s * (p / q) * 2^e, for naturals p, q > 0: p and
\* q are shifted to the same whole number of limbs, and DivDigits digits of
\* the quotient give more than MantBits + 1 bits.
FRatioRound(s, qr, e) == FRound(s, BNorm(qr[1]), e, qr[2] # <<>>)

FRatioDiv(s, r0, d, ge, e) ==
  FRatioRound(s, BDivDigits(IF ge THEN BSub(r0, d) ELSE r0, d, DivDigits,
                            IF ge THEN <<1>> ELSE <<>>), e)

FRatioAlign(s, r0, d, e) == FRatioDiv(s, r0, d, BCmp(r0, d) >= 0, e)

FRatioLen(s, p, q, e, lp, lq, t) ==
  FRatioAlign(s, BShl(p, t - lp), BShl(q, t - lq),
              e + lp - lq - DivDigits * LimbBits)

FRatioBits(s, p, q, e, lp, lq) ==
  FRatioLen(s, p, q, e, lp, lq,
            ((Max(lp, lq) + LimbBits - 1) \div LimbBits) * LimbBits)

FRatio(s, p, q, e) == FRatioBits(s, p, q, e, BBitLen(p), BBitLen(q))

FDiv(a, b) ==
  IF IsNaN(a) \/ IsNaN(b) THEN FNaN
  ELSE LET s == (a.s + b.s) % 2
       IN  IF IsInf(a) THEN (IF IsInf(b) THEN FNaN ELSE FInf(s))
           ELSE IF IsInf(b) THEN FZero(s)
           ELSE IF IsZero(b) THEN (IF IsZero(a) THEN FNaN ELSE FInf(s))
           ELSE IF IsZero(a) THEN FZero(s)
           ELSE FRatio(s, a.m, b.m, a.e - b.e)

\* x and y are |a| and |b| in units of 2^e, and c compares them
FAddAligned(a, b, x, y, c, e) ==
  IF a.s # b.s /\ c = 0 THEN FZero(0)
  ELSE FRound(IF a.s = b.s \/ c > 0 THEN a.s ELSE b.s,
              IF a.s = b.s THEN BAdd(x, y)
              ELSE IF c > 0 THEN BSub(x, y) ELSE BSub(y, x),
              e, FALSE)

FAddShift(a, b, x, y, e) == FAddAligned(a, b, x, y, BCmp(x, y), e)

FAddExp(a, b, e) == FAddShift(a, b, BShl(a.m, a.e - e), BShl(b.m, b.e - e), e)

FAdd(a, b) ==
  IF IsNaN(a) \/ IsNaN(b) THEN FNaN
  ELSE IF IsInf(a) THEN (IF IsInf(b) /\ a.s # b.s THEN FNaN ELSE a)
  ELSE IF IsInf(b) THEN b
  ELSE IF IsZero(a) /\ IsZero(b) THEN FZero(IF a.s = 1 /\ b.s = 1 THEN 1 ELSE 0)
  ELSE IF IsZero(a) THEN b
  ELSE IF IsZero(b) THEN a
  ELSE IF a.e - b.e > AddGap THEN a
  ELSE IF b.e - a.e > AddGap THEN b
  ELSE FAddExp(a, b, IF a.e < b.e THEN a.e ELSE b.e)

FSub(a, b) == FAdd(a, FNeg(b))

\* |a| < |b|, for a and b not NaN
MagLt(a, b) ==
  IF IsInf(a) THEN FALSE
  ELSE IF IsInf(b) THEN TRUE
  ELSE IF IsZero(b) THEN FALSE
  ELSE IF IsZero(a) THEN TRUE
  ELSE a.e < b.e \/ (a.e = b.e /\ BCmp(a.m, b.m) < 0)

\* the comparisons of IEEE 754: false on NaN, and -0 = +0
FLt(a, b) ==
  /\ ~IsNaN(a)
  /\ ~IsNaN(b)
  /\ IF IsZero(a) /\ IsZero(b) THEN FALSE
     ELSE IF a.s # b.s THEN a.s = 1
     ELSE IF a.s = 0 THEN MagLt(a, b)
     ELSE MagLt(b, a)

FEq(a, b) == ~IsNaN(a) /\ ~IsNaN(b) /\ ((IsZero(a) /\ IsZero(b)) \/ a = b)

FGe(a, b) == ~IsNaN(a) /\ ~IsNaN(b) /\ ~FLt(a, b)

FGt(a, b) == FLt(b, a)

\* The float64 a decimal literal p / q denotes (q a power of ten): the exact
\* value rounded once.
Lit(p, q) == FDiv(FromInt(p), FromInt(q))

(***************************************************************************)
(* strconv's shortest formatting, which fmt's %v and %g use for a float64: *)
(* the fewest decimal digits that read back as the same float64, and among *)
(* those the closest to it.  A positive finite f is 0.d1 d2 ... dn * 10^dp *)
(* for the result [d |-> <<d1, ..., dn>>, dp |-> dp].                      *)
(***************************************************************************)
RECURSIVE TenB(_)
TenB(n) ==
  IF n = 0 THEN <<1>>
  ELSE IF n >= 4 THEN BMulSmall(TenB(n - 4), 10000)
  ELSE BMulSmall(TenB(n - 1), 10)

\* a lower estimate of the decimal exponent of 2^n
Log10Est(n) == (n * 30103) \div 100000

\* f = r / s, and the float64s next to f are (r - mm) / s and (r + mp) / s,
\* all scaled so that the half-way points to them are whole numbers
ShortestScale(f, sh, k0, up, dn) ==
  [r  |-> BMul(BShl(f.m, IF f.e >= 0 THEN f.e + sh ELSE sh), up),
   s  |-> BMul(BShl(<<1>>, IF f.e >= 0 THEN sh ELSE sh - f.e), dn),
   mp |-> BMul(BShl(<<1>>, IF f.e >= 0 THEN f.e + sh - 1 ELSE sh - 1), up),
   mm |-> BMul(BShl(<<1>>, IF f.e >= 0 THEN f.e ELSE 0), up),
   k  |-> k0]

ShortestPow(f, sh, k0) ==
  ShortestScale(f, sh, k0, IF k0 < 0 THEN TenB(-k0) ELSE <<1>>,
                IF k0 > 0 THEN TenB(k0) ELSE <<1>>)

ShortestStart(f) ==
  ShortestPow(f,
              IF BBitLen(f.m) = MantBits /\ BLowZero(f.m, MantBits - 1) /\ f.e > MinExp
                THEN 2 ELSE 1,
              Log10Est(BBitLen(f.m) + f.e - 1))

\* c compares a point with an end of the interval, which counts when incl
Past(c, incl) == c > 0 \/ (incl /\ c = 0)

\* whether (r + mp) / s reaches 1
TooHigh(r, mp, s, incl) == Past(BCmp(BAdd(r, mp), s), incl)

RECURSIVE ShortestFix(_, _)
ShortestFix(st, incl) ==
  IF TooHigh(st.r, st.mp, st.s, incl)
    THEN ShortestFix([st EXCEPT !.s = BMulSmall(@, 10), !.k = @ + 1], incl)
  ELSE st

\* The digits after st = <<r, mp, mm, digits so far>>: digits are produced until
\* cutting there (low) or rounding up there (high) stays within the interval of
\* numbers that read back as f; when both do, the nearer one, ties to even.
RECURSIVE ShortestGen(_, _, _)
ShortestTie(ds, q, c) ==
  IF c < 0 \/ (c = 0 /\ q % 2 = 0) THEN Append(ds, q) ELSE Append(ds, q + 1)

ShortestPick(st, s, incl, qr, mp, mm, low, high) ==
  IF ~low /\ ~high
    THEN ShortestGen(<<qr[2], mp, mm, Append(st[4], qr[1])>>, s, incl)
  ELSE IF low /\ ~high THEN Append(st[4], qr[1])
  ELSE IF high /\ ~low THEN Append(st[4], qr[1] + 1)
  ELSE ShortestTie(st[4], qr[1], BCmp(BMulSmall(qr[2], 2), s))

ShortestStep(st, s, incl, qr, mp, mm) ==
  ShortestPick(st, s, incl, qr, mp, mm,
               Past(BCmp(mm, qr[2]), incl), TooHigh(qr[2], mp, s, incl))

ShortestGen(st, s, incl) ==
  ShortestStep(st, s, incl, BDigit(BMulSmall(st[1], 10), s),
               BMulSmall(st[2], 10), BMulSmall(st[3], 10))

\* the division wants the top limb of s at least Base / 2
ShortestNorm(st, t, incl) ==
  [d  |-> ShortestGen(<<BShl(st.r, t), BShl(st.mp, t), BShl(st.mm, t), <<>>>>,
                      BShl(st.s, t), incl),
   dp |-> st.k]

ShortestFixed(st, incl) ==
  ShortestNorm(st, (LimbBits - (BBitLen(st.s) % LimbBits)) % LimbBits, incl)

Shortest(f) ==
  ShortestFixed(ShortestFix(ShortestStart(f), ~BIsOdd(f.m)), ~BIsOdd(f.m))

DigitChar == <<"0", "1", "2", "3", "4", "5", "6", "7", "8", "9">>

\* the digits d[i..j] as text; a position outside d is a zero
RECURSIVE DigitText(_, _, _)
DigitText(d, i, j) ==
  IF i > j THEN ""
  ELSE (IF i >= 1 /\ i <= Len(d) THEN DigitChar[d[i] + 1] ELSE "0")
       \o DigitText(d, i + 1, j)

RECURSIVE NatText(_)
NatText(n) ==
  IF n < 10 THEN DigitChar[n + 1] ELSE NatText(n \div 10) \o DigitChar[(n % 10) + 1]

\* the %e layout with the exponent's digits as they are, unpadded
FmtEUnpadded(d, dp) ==
  LET x == dp - 1
      ax == IF x < 0 THEN -x ELSE x
  IN  DigitText(d, 1, 1)
      \o (IF Len(d) > 1 THEN "." \o DigitText(d, 2, Len(d)) ELSE "")
      \o "e" \o (IF x < 0 THEN "-" ELSE "+") \o NatText(ax)

\* strconv's %e layout: d.ddde+XX, the exponent with at least two digits
FmtE(d, dp) ==
  LET x == dp - 1
      ax == IF x < 0 THEN -x ELSE x
  IN  DigitText(d, 1, 1)
      \o (IF Len(d) > 1 THEN "." \o DigitText(d, 2, Len(d)) ELSE "")
      \o "e" \o (IF x < 0 THEN "-" ELSE "+")
      \o (IF ax < 10 THEN "0" ELSE "") \o NatText(ax)

\* strconv's %f layout with just the digits d needs
FmtF(d, dp) ==
  (IF dp > 0 THEN DigitText(d, 1, dp) ELSE "0")
  \o (IF Len(d) > dp THEN "." \o DigitText(d, dp + 1, Len(d)) ELSE "")

\* %e when the decimal exponent is below -4 or at least 6, %f otherwise
FmtDigits(sd) ==
  IF sd.dp - 1 < -4 \/ sd.dp - 1 >= 6 THEN FmtE(sd.d, sd.dp) ELSE FmtF(sd.d, sd.dp)

\* fmt.Sprintf("%g", f) and fmt.Sprintf("%v", f) for a float64 f
FmtG(f) ==
  IF IsNaN(f) THEN "NaN"
  ELSE IF IsInf(f) THEN (IF f.s = 1 THEN "-Inf" ELSE "+Inf")
  ELSE (IF f.s = 1 THEN "-" ELSE "") \o (IF IsZero(f) THEN "0" ELSE FmtDigits(Shortest(f)))

(***************************************************************************)
(* The unit constants.  A typed constant expression is rounded to float64  *)
(* at every step; an untyped one (5.0 / 9.0, 0.3048 * 0.3048) is exact     *)
(* until it meets a typed operand.                                         *)
(***************************************************************************)
Meter == FromInt(1)
Kilometer == FMul(Lit(1000, 1), Meter)
Centimeter == FMul(Lit(1, 100), Meter)
Millimeter == FMul(Lit(1, 1000), Meter)
Micrometer == FMul(Lit(1, 1000000), Meter)
Foot == FMul(Lit(3048, 10000), Meter)
Mile == FMul(FromInt(5280), Foot)
Inch == FDiv(Foot, FromInt(12))
NauticalMile == FMul(FromInt(1852), Meter)

SquareMeter == FromInt(1)
SquareKilometer == FMul(Lit(1000000, 1), SquareMeter)
Hectare == FMul(Lit(10000, 1), SquareMeter)
SquareCentimeter == FMul(Lit(1, 10000), SquareMeter)
SquareMillimeter == FMul(Lit(1, 1000000), SquareMeter)
SquareFoot == FMul(Lit(9290304, 100000000), SquareMeter)
SquareMile == FMul(FromInt(5280 * 5280), SquareFoot)
Acre == FMul(FromInt(66 * 660), SquareFoot)
SquareInch == FDiv(SquareFoot, FromInt(12 * 12))

hourInSeconds == FromInt(3600)
MeterPerSecond == FromInt(1)
KilometerPerHour == FDiv(FMul(FDiv(Kilometer, Meter), MeterPerSecond), hourInSeconds)
FootPerSecond == FMul(FDiv(Foot, Meter), MeterPerSecond)
MilePerHour == FDiv(FMul(FDiv(Mile, Foot), FootPerSecond), hourInSeconds)
Knot == FMul(FDiv(NauticalMile, Kilometer), KilometerPerHour)

Kelvin == FromInt(1)
Rankine == FMul(Lit(5, 9), Kelvin)
celsius0 == FMul(Lit(27315, 100), Kelvin)
fahrenheit0 == FMul(Lit(45967, 100), Rankine)

(***************************************************************************)
(* The state: the package's variables (the descriptors and threshold       *)
(* tables that drive formatting), and one caller: the value it holds, how  *)
(* it built it, and the last method it called with what that returned.     *)
(***************************************************************************)
VARIABLES
  kmDesc, meterDesc, unitThresholds,               \* length.go's package variables
  squareKmDesc, squareMeterDesc, areaUnitThresholds, \* the area file's
  pc,      \* "ready": the caller holds recv; "returned": a call has returned
  kind,    \* the type of recv: "Length", "Area", "Speed" or "Temperature"
  arg,     \* the float64 recv was built from
  unit,    \* the unit constant or constructor that built recv; "" for the zero value
  recv,    \* the value the caller holds
  op,      \* the method last called on recv
  dur,     \* the time.Duration passed to PerTime
  retF,    \* the float64 (or Length, Area, Speed) the call returned
  retS,    \* the string the call returned
  fmtd     \* String's and GoString's locals: what format() returned

pkgVars == <<kmDesc, meterDesc, unitThresholds,
             squareKmDesc, squareMeterDesc, areaUnitThresholds>>
callerVars == <<pc, kind, arg, unit, recv, op, dur, retF, retS, fmtd>>
vars == <<pkgVars, callerVars>>

(***************************************************************************)
(* Length                                                                  *)
(***************************************************************************)
\* Abs that leaves the sign
LengthAbsNone(l) == l

LengthAbs(l) == IF FLt(l, FZero(0)) THEN FNeg(l) ELSE l

\* time.Duration.Seconds of a duration of d.sec seconds and d.nsec nanoseconds
Seconds(d) == FAdd(FromInt(d.sec), FDiv(FromInt(d.nsec), Lit(1000000000, 1)))

\* PerTime dividing by the duration in hours
PerTimePerHour(l, d) ==
  FMul(FDiv(l, FDiv(Seconds(d), FromInt(3600))), MeterPerSecond)

\* PerTime that guards the division and returns 0 for a zero duration
PerTimeGuarded(l, d) ==
  IF IsZero(Seconds(d)) THEN FZero(0) ELSE FMul(FDiv(l, Seconds(d)), MeterPerSecond)

PerTime(l, d) == FMul(FDiv(l, Seconds(d)), MeterPerSecond)

\* LengthScan with exclusive thresholds
RECURSIVE LengthScanStrict(_, _)
LengthScanStrict(l, i) ==
  IF i > Len(unitThresholds)
    THEN [value |-> FmtG(FDiv(l, meterDesc.length)), desc |-> meterDesc]
  ELSE IF FGt(LengthAbs(l), unitThresholds[i].length)
    THEN [value |-> FmtG(FDiv(l, unitThresholds[i].length)),
          desc |-> unitThresholds[i]]
  ELSE LengthScanStrict(l, i + 1)

\* LengthScan falling back to the last unit of the list
RECURSIVE LengthScanLast(_, _)
LengthScanLast(l, i) ==
  IF i >= Len(unitThresholds) \/ FGe(LengthAbs(l), unitThresholds[i].length)
    THEN [value |-> FmtG(FDiv(l, unitThresholds[i].length)),
          desc |-> unitThresholds[i]]
  ELSE LengthScanLast(l, i + 1)

\* LengthScan with the comparison turned round: the first descriptor that
\* reaches |l|
RECURSIVE LengthScanAscending(_, _)
LengthScanAscending(l, i) ==
  IF i > Len(unitThresholds)
    THEN [value |-> FmtG(FDiv(l, meterDesc.length)), desc |-> meterDesc]
  ELSE IF FGe(unitThresholds[i].length, LengthAbs(l))
    THEN [value |-> FmtG(FDiv(l, unitThresholds[i].length)),
          desc |-> unitThresholds[i]]
  ELSE LengthScanAscending(l, i + 1)

\* the loop of format(): the first descriptor from index i on that |l| reaches
RECURSIVE LengthScan(_, _)
LengthScan(l, i) ==
  IF i > Len(unitThresholds)
    THEN [value |-> FmtG(FDiv(l, meterDesc.length)), desc |-> meterDesc]
  ELSE IF FGe(LengthAbs(l), unitThresholds[i].length)
    THEN [value |-> FmtG(FDiv(l, unitThresholds[i].length)),
          desc |-> unitThresholds[i]]
  ELSE LengthScan(l, i + 1)

\* format() without the bypass
LengthFormatListOnly(l) == LengthScan(l, 1)

\* format() with the bypass at 10000 kilometers
LengthFormatLateBypass(l) ==
  IF FGe(LengthAbs(l), FMul(FromInt(10000), kmDesc.length))
    THEN [value |-> FmtG(FDiv(l, meterDesc.length)), desc |-> meterDesc]
  ELSE LengthScan(l, 1)

LengthFormat(l) ==
  IF FGe(LengthAbs(l), FMul(FromInt(1000), kmDesc.length))
    THEN [value |-> FmtG(FDiv(l, meterDesc.length)), desc |-> meterDesc]
  ELSE LengthScan(l, 1)

\* fmt.Sprintf("%v%v", value, desc.symbol)
LengthString(f) == f.value \o f.desc.symbol

\* GoString with the symbol for the name
LengthGoStringSymbol(f) == f.value \o " * " \o f.desc.symbol

\* fmt.Sprintf("%v * %v", value, desc.name)
LengthGoString(f) == f.value \o " * " \o f.desc.name

(***************************************************************************)
(* Area                                                                    *)
(***************************************************************************)
\* Abs that leaves the sign
AreaAbsNone(a) == a

AreaAbs(a) == IF FLt(a, FZero(0)) THEN FNeg(a) ELSE a

\* AreaScan over a list that has SquareMile before the listed units
RECURSIVE AreaScanMile(_, _)
AreaScanMile(a, i) ==
  IF i = 1 /\ FGe(AreaAbs(a), SquareMile)
    THEN [value |-> FmtG(FDiv(a, SquareMile)),
          desc |-> [area |-> SquareMile, name |-> "SquareMile", symbol |-> "mi^2"]]
  ELSE IF i > Len(areaUnitThresholds)
    THEN [value |-> FmtG(a), desc |-> squareMeterDesc]
  ELSE IF FGe(AreaAbs(a), areaUnitThresholds[i].area)
    THEN [value |-> FmtG(FDiv(a, areaUnitThresholds[i].area)),
          desc |-> areaUnitThresholds[i]]
  ELSE AreaScanMile(a, i + 1)

RECURSIVE AreaScan(_, _)
AreaScan(a, i) ==
  IF i > Len(areaUnitThresholds)
    THEN [value |-> FmtG(a), desc |-> squareMeterDesc]
  ELSE IF FGe(AreaAbs(a), areaUnitThresholds[i].area)
    THEN [value |-> FmtG(FDiv(a, areaUnitThresholds[i].area)),
          desc |-> areaUnitThresholds[i]]
  ELSE AreaScan(a, i + 1)

\* format() with the inclusive bypass of Length
AreaFormatInclusive(a) ==
  IF FGe(AreaAbs(a), FMul(FromInt(1000000), squareKmDesc.area))
    THEN [value |-> FmtG(a), desc |-> squareMeterDesc]
  ELSE AreaScan(a, 1)

AreaFormat(a) ==
  IF FGt(AreaAbs(a), FMul(FromInt(1000000), squareKmDesc.area))
    THEN [value |-> FmtG(a), desc |-> squareMeterDesc]
  ELSE AreaScan(a, 1)

AreaString(f) == f.value \o f.desc.symbol

AreaGoString(f) == f.value \o " * " \o f.desc.name

(***************************************************************************)
(* Speed                                                                   *)
(***************************************************************************)

\* String choosing a unit as Length does: km/s from 1000 m/s on
SpeedStringPrefixed(v) ==
  IF FGe([v EXCEPT !.s = 0], FromInt(1000)) THEN FmtG(FDiv(v, FromInt(1000))) \o " km/s"
  ELSE FmtG(FDiv(v, MeterPerSecond)) \o " m/s"

\* fmt.Sprintf("%g m/s", s.MetersPerSecond())
SpeedString(v) == FmtG(FDiv(v, MeterPerSecond)) \o " m/s"

\* fmt.Sprintf("%g * MeterPerSecond", s.MetersPerSecond())
SpeedGoString(v) == FmtG(FDiv(v, MeterPerSecond)) \o " * MeterPerSecond"

(***************************************************************************)
(* Temperature                                                             *)
(***************************************************************************)
temperatureFromKelvin(k) == FMul(k, Kelvin)
TemperatureFromDegreesCelsius(c) == FAdd(FMul(c, Kelvin), celsius0)
TemperatureFromDegreesFahrenheit(f) == FAdd(FMul(f, Rankine), fahrenheit0)
temperatureFromDegreesRankine(r) == FMul(r, Rankine)

\* fmt.Sprintf("%g K", t.Kelvin())
TemperatureString(t) == FmtG(FDiv(t, Kelvin)) \o " K"

\* fmt.Sprintf("%v * Kelvin", t.Kelvin())
TemperatureGoString(t) == FmtG(FDiv(t, Kelvin)) \o " * Kelvin"

(***************************************************************************)
(* The values the caller works with.  Every unit is multiplied by the      *)
(* small integers; the base units also take the inputs of the              *)
(* repository's string tests and the float64 neighbours of every           *)
(* formatting threshold, and the special values +Inf and NaN.              *)
(***************************************************************************)
MaxCoeff == 3
MaxUlps == 1

\* the float64 n steps above (below, for n < 0) the positive normal f
RECURSIVE FStep(_, _)
FStep(f, n) ==
  IF n = 0 THEN f
  ELSE IF n > 0
    THEN LET m == BAdd(f.m, <<1>>)
         IN  FStep(IF BBitLen(m) > MantBits THEN FPack(f.s, BShr(m, 1), f.e + 1)
                   ELSE FPack(f.s, m, f.e), n - 1)
  ELSE LET m == BSub(f.m, <<1>>)
       IN  FStep(IF BBitLen(m) < MantBits THEN FPack(f.s, BAdd(BShl(m, 1), <<1>>), f.e - 1)
                 ELSE FPack(f.s, m, f.e), n + 1)

Near(S) == {FStep(f, n) : f \in S, n \in (0 - MaxUlps)..MaxUlps}
Signed(S) == S \cup {FNeg(f) : f \in S}
Coeffs == {FromInt(n) : n \in 0..MaxCoeff} \cup {Lit(1, 10), Lit(7, 10)}

LengthUnits ==
  {[name |-> "Meter", unit |-> Meter], [name |-> "Kilometer", unit |-> Kilometer],
   [name |-> "Centimeter", unit |-> Centimeter], [name |-> "Millimeter", unit |-> Millimeter],
   [name |-> "Micrometer", unit |-> Micrometer], [name |-> "Foot", unit |-> Foot],
   [name |-> "Mile", unit |-> Mile], [name |-> "Inch", unit |-> Inch],
   [name |-> "NauticalMile", unit |-> NauticalMile]}

AreaUnits ==
  {[name |-> "SquareMeter", unit |-> SquareMeter],
   [name |-> "SquareKilometer", unit |-> SquareKilometer],
   [name |-> "Hectare", unit |-> Hectare],
   [name |-> "SquareCentimeter", unit |-> SquareCentimeter],
   [name |-> "SquareMillimeter", unit |-> SquareMillimeter],
   [name |-> "SquareFoot", unit |-> SquareFoot], [name |-> "SquareMile", unit |-> SquareMile],
   [name |-> "Acre", unit |-> Acre], [name |-> "SquareInch", unit |-> SquareInch]}

SpeedUnits ==
  {[name |-> "MeterPerSecond", unit |-> MeterPerSecond],
   [name |-> "KilometerPerHour", unit |-> KilometerPerHour],
   [name |-> "FootPerSecond", unit |-> FootPerSecond],
   [name |-> "MilePerHour", unit |-> MilePerHour], [name |-> "Knot", unit |-> Knot]}

\* the inputs of stringTests, in meters, and the documentation's Meter / 4
\* and 0.9e9 m
stringTests ==
  {Lit(1000000, 1), Lit(999000, 1), Lit(1000, 1), Lit(99999, 100), Lit(1, 1),
   Lit(998, 1000), Lit(1, 100), Lit(99, 10000), Lit(1, 1000), Lit(9999, 10000000),
   Lit(1, 1000000), Lit(999, 1000000000), Lit(1, 4), Lit(900000000, 1)}

LengthEdges ==
  {FMul(FromInt(1000), Kilometer), Kilometer, Meter, Centimeter, Millimeter, Micrometer}

\* the inputs of the area string tests, each with the unit the test multiplies
areaStringTests ==
  {[x |-> Lit(123456789, 1000), name |-> "SquareMeter"],
   [x |-> Lit(123456, 100), name |-> "SquareCentimeter"],
   [x |-> Lit(987654321, 10000000), name |-> "SquareMillimeter"],
   [x |-> Lit(6734, 10), name |-> "SquareKilometer"],
   [x |-> Lit(118484, 1), name |-> "SquareKilometer"],
   [x |-> Lit(510000000, 1), name |-> "SquareKilometer"],
   [x |-> Lit(1000000, 1), name |-> "SquareKilometer"],
   [x |-> Lit(2, 10), name |-> "SquareKilometer"],
   [x |-> Lit(9, 10), name |-> "SquareMillimeter"]}

AreaEdges ==
  {FMul(FromInt(1000000), SquareKilometer), SquareKilometer, SquareMeter,
   SquareCentimeter, SquareMillimeter}

Specials == {FInf(0), FInf(1), FNaN}

\* the ends of float64's range: the largest finite value, which overflows
\* when multiplied by Kilometer, and the smallest above zero, which
\* underflows when multiplied by Micrometer
LengthExtremes(u) ==
  IF u.name = "Kilometer" THEN {FPack(0, BSub(BShl(<<1>>, MantBits), <<1>>), MaxExp)}
  ELSE IF u.name = "Micrometer" THEN {FPack(0, <<1>>, MinExp)}
  ELSE {}

LengthArgs(u) ==
  IF u.name = "Meter"
    THEN Signed(Coeffs \cup stringTests \cup Near(LengthEdges)) \cup Specials
  ELSE IF u.name = "Kilometer" THEN Signed(Coeffs \cup {Lit(2, 10)} \cup LengthExtremes(u))
  ELSE Signed(Coeffs \cup LengthExtremes(u))

AreaArgs(u) ==
  Signed(Coeffs \cup {t.x : t \in {t \in areaStringTests : t.name = u.name}})
  \cup (IF u.name = "SquareMeter" THEN Signed(Near(AreaEdges)) \cup Specials ELSE {})

\* with the inputs of the speed string tests, 0.001 and 299792458
SpeedArgs ==
  Signed(Coeffs \cup {FromInt(60), FromInt(88), Lit(1, 10), Lit(1, 1000), FromInt(299792458)})
  \cup Specials

TemperatureArgs ==
  Signed(Coeffs \cup {Lit(27315, 100), Lit(45967, 100), Lit(1, 100), Lit(1, 10),
                      FromInt(32), FromInt(100), FromInt(212), FromInt(40)})
  \cup Specials

Durations ==
  {[sec |-> 0, nsec |-> 0], [sec |-> 1, nsec |-> 0], [sec |-> 3600, nsec |-> 0],
   [sec |-> 0, nsec |-> 1000000], [sec |-> 0 - 1, nsec |-> 0]}

NoDur == [sec |-> 0, nsec |-> 0]
NoFmt == [value |-> "", desc |-> [name |-> "", symbol |-> ""]]

Kinds == {"Length", "Area", "Speed", "Temperature"}

(***************************************************************************)
(* After package initialisation the caller holds the zero value of one of  *)
(* the four types (var l Length).                                          *)
(***************************************************************************)
Init ==
  /\ kmDesc = [length |-> Kilometer, name |-> "Kilometer", symbol |-> "km"]
  /\ meterDesc = [length |-> Meter, name |-> "Meter", symbol |-> "m"]
  /\ unitThresholds =
       <<kmDesc, meterDesc,
         [length |-> Centimeter, name |-> "Centimeter", symbol |-> "cm"],
         [length |-> Millimeter, name |-> "Millimeter", symbol |-> "mm"],
         [length |-> Micrometer, name |-> "Micrometer", symbol |-> "µm"]>>
  /\ squareKmDesc = [area |-> SquareKilometer, name |-> "SquareKilometer", symbol |-> "km^2"]
  /\ squareMeterDesc = [area |-> SquareMeter, name |-> "SquareMeter", symbol |-> "m^2"]
  /\ areaUnitThresholds =
       <<squareKmDesc, squareMeterDesc,
         [area |-> SquareCentimeter, name |-> "SquareCentimeter", symbol |-> "cm^2"],
         [area |-> SquareMillimeter, name |-> "SquareMillimeter", symbol |-> "mm^2"]>>
  /\ pc = "ready"
  /\ kind \in Kinds
  /\ arg = FZero(0)
  /\ unit = ""
  /\ recv = FZero(0)
  /\ op = ""
  /\ dur = NoDur
  /\ retF = FZero(0)
  /\ retS = ""
  /\ fmtd = NoFmt

\* the caller assigns its variable: recv = T(x) * U, or a constructor's result
Assign(k, x, u, v) ==
  /\ pc = "ready"
  /\ unit = ""
  /\ kind = k
  /\ arg' = x
  /\ unit' = u
  /\ recv' = v
  /\ UNCHANGED <<pkgVars, pc, kind, op, dur, retF, retS, fmtd>>

MulLength == \E u \in LengthUnits : \E x \in LengthArgs(u) : Assign("Length", x, u.name, FMul(x, u.unit))

MulArea == \E u \in AreaUnits : \E x \in AreaArgs(u) : Assign("Area", x, u.name, FMul(x, u.unit))

MulSpeed == \E u \in SpeedUnits : \E x \in SpeedArgs : Assign("Speed", x, u.name, FMul(x, u.unit))

FromKelvin ==
  \E x \in TemperatureArgs : Assign("Temperature", x, "Kelvin", temperatureFromKelvin(x))

FromDegreesCelsius ==
  \E x \in TemperatureArgs :
    Assign("Temperature", x, "DegreesCelsius", TemperatureFromDegreesCelsius(x))

FromDegreesFahrenheit ==
  \E x \in TemperatureArgs :
    Assign("Temperature", x, "DegreesFahrenheit", TemperatureFromDegreesFahrenheit(x))

FromDegreesRankine ==
  \E x \in TemperatureArgs :
    Assign("Temperature", x, "DegreesRankine", temperatureFromDegreesRankine(x))

\* the caller calls method name of recv, which returns f, s and leaves fm
Call(k, name, d, f, s, fm) ==
  /\ pc = "ready"
  /\ kind = k
  /\ pc' = "returned"
  /\ op' = name
  /\ dur' = d
  /\ retF' = f
  /\ retS' = s
  /\ fmtd' = fm
  /\ UNCHANGED <<pkgVars, kind, arg, unit, recv>>

Return(k, name, f) == Call(k, name, NoDur, f, "", NoFmt)

Formatted(k) == pc = "ready" /\ kind = k

CallPerTime == \E d \in Durations : Call("Length", "PerTime", d, PerTime(recv, d), "", NoFmt)
CallLengthAbs == Return("Length", "Abs", LengthAbs(recv))
CallMeters == Return("Length", "Meters", recv)
CallKilometers == Return("Length", "Kilometers", FDiv(recv, Kilometer))
CallCentimeters == Return("Length", "Centimeters", FDiv(recv, Centimeter))
CallMillimeters == Return("Length", "Millimeters", FDiv(recv, Millimeter))
CallMicrometers == Return("Length", "Micrometers", FDiv(recv, Micrometer))
CallFeet == Return("Length", "Feet", FDiv(recv, Foot))
CallMiles == Return("Length", "Miles", FDiv(recv, Mile))
\* Inches() dividing by Foot
CallInchesByFoot == Return("Length", "Inches", FDiv(recv, Foot))
CallInches == Return("Length", "Inches", FDiv(recv, Inch))
CallNauticalMiles == Return("Length", "NauticalMiles", FDiv(recv, NauticalMile))

CallLengthString ==
  /\ Formatted("Length")
  /\ \E f \in {LengthFormat(recv)} :
       Call("Length", "String", NoDur, FZero(0), LengthString(f), f)

CallLengthGoString ==
  /\ Formatted("Length")
  /\ \E f \in {LengthFormat(recv)} :
       Call("Length", "GoString", NoDur, FZero(0), LengthGoString(f), f)

CallAreaAbs == Return("Area", "Abs", AreaAbs(recv))
CallSquareMeters == Return("Area", "SquareMeters", recv)
CallSquareKilometers == Return("Area", "SquareKilometers", FDiv(recv, SquareKilometer))
CallHectares == Return("Area", "Hectares", FDiv(recv, Hectare))
CallSquareCentimeters == Return("Area", "SquareCentimeters", FDiv(recv, SquareCentimeter))
CallSquareMillimeters == Return("Area", "SquareMillimeters", FDiv(recv, SquareMillimeter))
CallSquareFeet == Return("Area", "SquareFeet", FDiv(recv, SquareFoot))
CallSquareMiles == Return("Area", "SquareMiles", FDiv(recv, SquareMile))
CallAcres == Return("Area", "Acres", FDiv(recv, Acre))
CallSquareInches == Return("Area", "SquareInches", FDiv(recv, SquareInch))

CallAreaString ==
  /\ Formatted("Area")
  /\ \E f \in {AreaFormat(recv)} :
       Call("Area", "String", NoDur, FZero(0), AreaString(f), f)

CallAreaGoString ==
  /\ Formatted("Area")
  /\ \E f \in {AreaFormat(recv)} :
       Call("Area", "GoString", NoDur, FZero(0), AreaGoString(f), f)

CallMetersPerSecond == Return("Speed", "MetersPerSecond", FDiv(recv, MeterPerSecond))
CallKilometersPerHour == Return("Speed", "KilometersPerHour", FDiv(recv, KilometerPerHour))
CallMilesPerHour == Return("Speed", "MilesPerHour", FDiv(recv, MilePerHour))
\* FeetPerSecond() dividing by MeterPerSecond
CallFeetPerSecondByMeter == Return("Speed", "FeetPerSecond", FDiv(recv, MeterPerSecond))
CallFeetPerSecond == Return("Speed", "FeetPerSecond", FDiv(recv, FootPerSecond))
CallKnots == Return("Speed", "Knots", FDiv(recv, Knot))
CallSpeedString == Call("Speed", "String", NoDur, FZero(0), SpeedString(recv), NoFmt)
CallSpeedGoString == Call("Speed", "GoString", NoDur, FZero(0), SpeedGoString(recv), NoFmt)

CallKelvin == Return("Temperature", "Kelvin", FDiv(recv, Kelvin))
CallDegreesCelsius == Return("Temperature", "DegreesCelsius", FDiv(FSub(recv, celsius0), Kelvin))
\* DegreesFahrenheit() without the offset
CallDegreesFahrenheitNoOffset == Return("Temperature", "DegreesFahrenheit", FDiv(recv, Rankine))
CallDegreesFahrenheit == Return("Temperature", "DegreesFahrenheit", FDiv(FSub(recv, fahrenheit0), Rankine))
CallDegreesRankine == Return("Temperature", "DegreesRankine", FDiv(recv, Rankine))
CallTemperatureString ==
  Call("Temperature", "String", NoDur, FZero(0), TemperatureString(recv), NoFmt)
CallTemperatureGoString ==
  Call("Temperature", "GoString", NoDur, FZero(0), TemperatureGoString(recv), NoFmt)

\* the caller drops the result and is ready to call again
Discard ==
  /\ pc = "returned"
  /\ pc' = "ready"
  /\ op' = ""
  /\ dur' = NoDur
  /\ retF' = FZero(0)
  /\ retS' = ""
  /\ fmtd' = NoFmt
  /\ UNCHANGED <<pkgVars, kind, arg, unit, recv>>

Next ==
  \/ MulLength \/ MulArea \/ MulSpeed
  \/ FromKelvin \/ FromDegreesCelsius \/ FromDegreesFahrenheit \/ FromDegreesRankine
  \/ CallPerTime \/ CallLengthAbs
  \/ CallMeters \/ CallKilometers \/ CallCentimeters \/ CallMillimeters \/ CallMicrometers
  \/ CallFeet \/ CallMiles \/ CallInches \/ CallNauticalMiles
  \/ CallLengthString \/ CallLengthGoString
  \/ CallAreaAbs
  \/ CallSquareMeters \/ CallSquareKilometers \/ CallHectares \/ CallSquareCentimeters \/ CallSquareMillimeters
  \/ CallSquareFeet \/ CallSquareMiles \/ CallAcres \/ CallSquareInches
  \/ CallAreaString \/ CallAreaGoString
  \/ CallMetersPerSecond \/ CallKilometersPerHour \/ CallMilesPerHour \/ CallFeetPerSecond \/ CallKnots
  \/ CallSpeedString \/ CallSpeedGoString
  \/ CallKelvin \/ CallDegreesCelsius \/ CallDegreesFahrenheit \/ CallDegreesRankine
  \/ CallTemperatureString \/ CallTemperatureGoString
  \/ Discard

Spec == Init /\ [][Next]_vars

(***************************************************************************)
(* Several callers at once.  Every caller holds a Length or an Area and    *)
(* calls String or Abs on it again and again.  format() runs one           *)
(* comparison at a time, each reading the package's variables, and the     *)
(* callers' steps interleave; Abs reads nothing but its receiver.  pc[c]   *)
(* is where caller c is: ready, at the bypass test ("check"), in the loop  *)
(* before descriptor i, or returned.                                       *)
(***************************************************************************)
NumCallers == 2

Callers == 1..NumCallers

\* what a caller may hold: -0.998 m, 1e6 m, 9.99e-7 m, a square mile, 0.9 mm^2
CallerValues ==
  {[kind |-> "Length", v |-> FNeg(Lit(998, 1000))],
   [kind |-> "Length", v |-> Lit(1000000, 1)],
   [kind |-> "Length", v |-> Lit(999, 1000000000)],
   [kind |-> "Area", v |-> SquareMile],
   [kind |-> "Area", v |-> FMul(Lit(9, 10), SquareMillimeter)]}

CallersInit ==
  /\ kmDesc = [length |-> Kilometer, name |-> "Kilometer", symbol |-> "km"]
  /\ meterDesc = [length |-> Meter, name |-> "Meter", symbol |-> "m"]
  /\ unitThresholds =
       <<kmDesc, meterDesc,
         [length |-> Centimeter, name |-> "Centimeter", symbol |-> "cm"],
         [length |-> Millimeter, name |-> "Millimeter", symbol |-> "mm"],
         [length |-> Micrometer, name |-> "Micrometer", symbol |-> "µm"]>>
  /\ squareKmDesc = [area |-> SquareKilometer, name |-> "SquareKilometer", symbol |-> "km^2"]
  /\ squareMeterDesc = [area |-> SquareMeter, name |-> "SquareMeter", symbol |-> "m^2"]
  /\ areaUnitThresholds =
       <<squareKmDesc, squareMeterDesc,
         [area |-> SquareCentimeter, name |-> "SquareCentimeter", symbol |-> "cm^2"],
         [area |-> SquareMillimeter, name |-> "SquareMillimeter", symbol |-> "mm^2"]>>
  /\ \E held \in [Callers -> CallerValues] :
       /\ kind = [c \in Callers |-> held[c].kind]
       /\ recv = [c \in Callers |-> held[c].v]
  /\ pc = [c \in Callers |-> [at |-> "ready", i |-> 0]]
  /\ retS = [c \in Callers |-> ""]
  /\ fmtd = [c \in Callers |-> NoFmt]
  /\ op = [c \in Callers |-> ""]
  /\ retF = [c \in Callers |-> FZero(0)]
  /\ arg = FZero(0)
  /\ unit = ""
  /\ dur = NoDur

\* caller c calls String, which calls format()
EnterFormat(c) ==
  /\ pc[c].at = "ready"
  /\ pc' = [pc EXCEPT ![c] = [at |-> "check", i |-> 0]]
  /\ op' = [op EXCEPT ![c] = "String"]
  /\ UNCHANGED <<pkgVars, kind, arg, unit, recv, dur, retF, retS, fmtd>>

\* caller c calls Abs, which returns in one step
CallAbs(c) ==
  /\ pc[c].at = "ready"
  /\ pc' = [pc EXCEPT ![c] = [at |-> "returned", i |-> 0]]
  /\ op' = [op EXCEPT ![c] = "Abs"]
  /\ retF' = [retF EXCEPT ![c] = IF kind[c] = "Length" THEN LengthAbs(recv[c])
                                                       ELSE AreaAbs(recv[c])]
  /\ UNCHANGED <<pkgVars, kind, arg, unit, recv, dur, retS, fmtd>>

\* format() of caller c returns f, and String the value with the symbol
FormatReturn(c, f) ==
  /\ pc' = [pc EXCEPT ![c] = [at |-> "returned", i |-> 0]]
  /\ fmtd' = [fmtd EXCEPT ![c] = f]
  /\ retS' = [retS EXCEPT ![c] = f.value \o f.desc.symbol]
  /\ UNCHANGED <<pkgVars, kind, arg, unit, recv, op, dur, retF>>

\* format() of caller c goes on to descriptor i of the table
FormatNext(c, i) ==
  /\ pc' = [pc EXCEPT ![c] = [at |-> "loop", i |-> i]]
  /\ UNCHANGED <<pkgVars, kind, arg, unit, recv, op, dur, retF, retS, fmtd>>

\* if l.Abs() >= 1000*kmDesc.length
LengthFormatBypass(c) ==
  /\ pc[c].at = "check"
  /\ kind[c] = "Length"
  /\ IF FGe(LengthAbs(recv[c]), FMul(FromInt(1000), kmDesc.length))
       THEN FormatReturn(c, [value |-> FmtG(FDiv(recv[c], meterDesc.length)),
                             desc |-> meterDesc])
       ELSE FormatNext(c, 1)

\* one turn of a loop that takes the head of the table off as it goes
LengthFormatLoopConsuming(c) ==
  /\ pc[c].at = "loop"
  /\ kind[c] = "Length"
  /\ IF unitThresholds = <<>>
       THEN FormatReturn(c, [value |-> FmtG(FDiv(recv[c], meterDesc.length)),
                             desc |-> meterDesc])
     ELSE IF FGe(LengthAbs(recv[c]), Head(unitThresholds).length)
       THEN FormatReturn(c, [value |-> FmtG(FDiv(recv[c], Head(unitThresholds).length)),
                             desc |-> Head(unitThresholds)])
     ELSE /\ pc' = [pc EXCEPT ![c] = [at |-> "loop", i |-> 1]]
          /\ unitThresholds' = Tail(unitThresholds)
          /\ UNCHANGED <<kmDesc, meterDesc, squareKmDesc, squareMeterDesc,
                         areaUnitThresholds, kind, arg, unit, recv, op, dur, retF,
                         retS, fmtd>>

\* one turn of for _, unitThreshold := range unitThresholds, or the return
\* after it
LengthFormatLoop(c) ==
  /\ pc[c].at = "loop"
  /\ kind[c] = "Length"
  /\ IF pc[c].i > Len(unitThresholds)
       THEN FormatReturn(c, [value |-> FmtG(FDiv(recv[c], meterDesc.length)),
                             desc |-> meterDesc])
     ELSE IF FGe(LengthAbs(recv[c]), unitThresholds[pc[c].i].length)
       THEN FormatReturn(c, [value |-> FmtG(FDiv(recv[c], unitThresholds[pc[c].i].length)),
                             desc |-> unitThresholds[pc[c].i]])
     ELSE FormatNext(c, pc[c].i + 1)

\* if a.Abs() > 1_000_000*squareKmDesc.area
AreaFormatBypass(c) ==
  /\ pc[c].at = "check"
  /\ kind[c] = "Area"
  /\ IF FGt(AreaAbs(recv[c]), FMul(FromInt(1000000), squareKmDesc.area))
       THEN FormatReturn(c, [value |-> FmtG(recv[c]), desc |-> squareMeterDesc])
       ELSE FormatNext(c, 1)

\* one turn of for _, u := range areaUnitThresholds, or the return after it
AreaFormatLoop(c) ==
  /\ pc[c].at = "loop"
  /\ kind[c] = "Area"
  /\ IF pc[c].i > Len(areaUnitThresholds)
       THEN FormatReturn(c, [value |-> FmtG(recv[c]), desc |-> squareMeterDesc])
     ELSE IF FGe(AreaAbs(recv[c]), areaUnitThresholds[pc[c].i].area)
       THEN FormatReturn(c, [value |-> FmtG(FDiv(recv[c], areaUnitThresholds[pc[c].i].area)),
                             desc |-> areaUnitThresholds[pc[c].i]])
     ELSE FormatNext(c, pc[c].i + 1)

\* caller c drops the result and is ready to call again
Leave(c) ==
  /\ pc[c].at = "returned"
  /\ pc' = [pc EXCEPT ![c] = [at |-> "ready", i |-> 0]]
  /\ op' = [op EXCEPT ![c] = ""]
  /\ fmtd' = [fmtd EXCEPT ![c] = NoFmt]
  /\ retS' = [retS EXCEPT ![c] = ""]
  /\ retF' = [retF EXCEPT ![c] = FZero(0)]
  /\ UNCHANGED <<pkgVars, kind, arg, unit, recv, dur>>

CallersNext ==
  \E c \in Callers :
    \/ EnterFormat(c)
    \/ CallAbs(c)
    \/ LengthFormatBypass(c)
    \/ LengthFormatLoop(c)
    \/ AreaFormatBypass(c)
    \/ AreaFormatLoop(c)
    \/ Leave(c)

CallersSpec == CallersInit /\ [][CallersNext]_vars

(***************************************************************************)
(* The properties.  They speak of the state a call has returned to: recv   *)
(* is the value, op the method, retF and retS what it returned, and fmtd   *)
(* the number text and the descriptor String or GoString got from format.  *)
(***************************************************************************)
Mag(f) == [f EXCEPT !.s = 0]

Renders(k) == pc = "returned" /\ kind = k /\ op \in {"String", "GoString"}

\* "<numeric><symbol>" for String, "<numeric> * <UnitName>" for GoString
Rendered(value, symbol, name) ==
  IF op = "String" THEN value \o symbol ELSE value \o " * " \o name

LengthList ==
  {[length |-> Kilometer, name |-> "Kilometer", symbol |-> "km"],
   [length |-> Meter, name |-> "Meter", symbol |-> "m"],
   [length |-> Centimeter, name |-> "Centimeter", symbol |-> "cm"],
   [length |-> Millimeter, name |-> "Millimeter", symbol |-> "mm"],
   [length |-> Micrometer, name |-> "Micrometer", symbol |-> "µm"]}

LengthBypass == FMul(FromInt(1000), Kilometer)

\* u is the largest unit of the list that |l| reaches
LargestLength(u, l) ==
  /\ u \in LengthList
  /\ FGe(Mag(l), u.length)
  /\ \A v \in LengthList : FGe(Mag(l), v.length) => FGe(u.length, v.length)

\* C1: a Length l with 1 Micrometer <= |l| < 1000 Kilometer is rendered by
\* String and by GoString in the largest unit of the list {Kilometer, Meter,
\* Centimeter, Millimeter, Micrometer} whose scale is at most |l| (a threshold
\* itself counts), and the number rendered is l divided by that unit's scale.
C1_LargestListedUnit ==
  (/\ Renders("Length")
   /\ FGe(Mag(recv), Micrometer)
   /\ FLt(Mag(recv), LengthBypass))
  => \E u \in LengthList :
       /\ LargestLength(u, recv)
       /\ fmtd.desc = u
       /\ fmtd.value = FmtG(FDiv(recv, u.length))
       /\ retS = Rendered(fmtd.value, u.symbol, u.name)

\* Meter / 4 has been rendered by GoString as 25 centimeters, and exactly one
\* meter by String in meters
C1_Witness ==
  \/ Renders("Length") /\ op = "GoString" /\ recv = Lit(1, 4) /\ retS = "25 * Centimeter"
  \/ Renders("Length") /\ op = "String" /\ recv = Meter /\ retS = "1m"

\* C2: a Length l with |l| >= 1000 Kilometer (1e6 m itself included, 999000 m
\* not) is rendered by String and by GoString in the base unit Meter, with
\* the general format of its number of meters, never in Kilometer.
C2_BypassToMeter ==
  /\ (Renders("Length") /\ FGe(Mag(recv), LengthBypass))
     => /\ fmtd.desc.name = "Meter"
        /\ fmtd.desc.symbol = "m"
        /\ fmtd.value = FmtG(recv)
        /\ retS = Rendered(FmtG(recv), "m", "Meter")
  /\ (Renders("Length") /\ recv = Lit(999000, 1)) => fmtd.desc.name = "Kilometer"

\* exactly 1e6 m has been rendered as "1e+06m"
C2_Witness ==
  Renders("Length") /\ op = "String" /\ recv = Lit(1000000, 1) /\ retS = "1e+06m"

\* C3: a Length l with |l| < 1 Micrometer, the zero value included, meets no
\* threshold and is rendered in the base unit Meter; the zero value's Meters()
\* is 0 and its String() "0m"; no unit outside the list, so none smaller than
\* Micrometer, is ever selected.
C3_FallbackToMeter ==
  /\ (Renders("Length") /\ FLt(Mag(recv), Micrometer))
     => /\ fmtd.desc.name = "Meter"
        /\ fmtd.desc.symbol = "m"
        /\ fmtd.value = FmtG(recv)
        /\ retS = Rendered(FmtG(recv), "m", "Meter")
  /\ (Renders("Length") /\ op = "String" /\ unit = "") => retS = "0m"
  /\ (pc = "returned" /\ kind = "Length" /\ op = "Meters" /\ unit = "")
     => retF = FZero(0)
  /\ Renders("Length") => fmtd.desc \in LengthList

\* 9.99e-7 m has been rendered as "9.99e-07m"
C3_Witness ==
  /\ Renders("Length")
  /\ op = "String"
  /\ recv = Lit(999, 1000000000)
  /\ retS = "9.99e-07m"

AreaList ==
  {[area |-> SquareKilometer, name |-> "SquareKilometer", symbol |-> "km^2"],
   [area |-> SquareMeter, name |-> "SquareMeter", symbol |-> "m^2"],
   [area |-> SquareCentimeter, name |-> "SquareCentimeter", symbol |-> "cm^2"],
   [area |-> SquareMillimeter, name |-> "SquareMillimeter", symbol |-> "mm^2"]}

AreaBypass == FMul(FromInt(1000000), SquareKilometer)

\* u is the largest unit of the list that |a| reaches
LargestArea(u, a) ==
  /\ u \in AreaList
  /\ FGe(Mag(a), u.area)
  /\ \A v \in AreaList : FGe(Mag(a), v.area) => FGe(u.area, v.area)

\* C4: an Area a with |a| <= 1,000,000 SquareKilometer is rendered by String
\* and by GoString in the largest unit of the list {SquareKilometer,
\* SquareMeter, SquareCentimeter, SquareMillimeter} whose scale is at most |a|,
\* and in SquareMeter when |a| < 1 SquareMillimeter (zero is "0m^2"); no other
\* unit (Hectare, Acre, SquareMile, SquareFoot, SquareInch) is ever selected.
C4_AreaLargestListedUnit ==
  /\ (/\ Renders("Area")
      /\ FGe(Mag(recv), SquareMillimeter)
      /\ ~FGt(Mag(recv), AreaBypass))
     => \E u \in AreaList :
          /\ LargestArea(u, recv)
          /\ fmtd.desc = u
          /\ fmtd.value = FmtG(FDiv(recv, u.area))
          /\ retS = Rendered(fmtd.value, u.symbol, u.name)
  /\ (Renders("Area") /\ FLt(Mag(recv), SquareMillimeter))
     => /\ fmtd.desc.name = "SquareMeter"
        /\ retS = Rendered(FmtG(recv), "m^2", "SquareMeter")
  /\ (Renders("Area") /\ op = "String" /\ recv = FZero(0)) => retS = "0m^2"
  /\ Renders("Area") => fmtd.desc \in AreaList

\* one square mile, 0.2 km^2 and 1234.56 cm^2 have been rendered
C4_Witness ==
  /\ Renders("Area")
  /\ op = "String"
  /\ \/ unit = "SquareMile" /\ arg = FromInt(1) /\ fmtd.desc.name = "SquareKilometer"
     \/ unit = "SquareKilometer" /\ arg = Lit(2, 10) /\ retS = "200000m^2"
     \/ unit = "SquareCentimeter" /\ arg = Lit(123456, 100) /\ retS = "1234.56cm^2"

\* C5: the bypass of Area is strict: an Area with |a| > 1e6 km^2 is rendered
\* in SquareMeter, one with |a| exactly 1e6 km^2 (1e12 m^2) still in
\* SquareKilometer; the bypass of Length is inclusive: a Length of exactly
\* 1000 Kilometer is rendered in Meter.
C5_StrictAreaBypass ==
  /\ (Renders("Area") /\ FGt(Mag(recv), AreaBypass))
     => /\ fmtd.desc.name = "SquareMeter"
        /\ retS = Rendered(FmtG(recv), "m^2", "SquareMeter")
  /\ (Renders("Area") /\ Mag(recv) = AreaBypass)
     => /\ fmtd.desc.name = "SquareKilometer"
        /\ retS = Rendered((IF recv.s = 1 THEN "-" ELSE "") \o "1e+06",
                           "km^2", "SquareKilometer")
  /\ (Renders("Length") /\ Mag(recv) = LengthBypass) => fmtd.desc.name = "Meter"

\* exactly 1e12 m^2 has been rendered, and so has the next float64 above it
C5_Witness ==
  \/ Renders("Area") /\ recv = AreaBypass /\ retS = "1e+06km^2"
  \/ Renders("Area") /\ recv = FStep(AreaBypass, 1) /\ fmtd.desc.name = "SquareMeter"

\* what String or GoString, whichever op is, makes of the format() result f
RenderedFrom(f) == Rendered(f.value, f.desc.symbol, f.desc.name)

\* recv is -x for a Length x >= 0, and x is rendered as f: -x is rendered as
\* "-" followed by the rendering of x, in the same unit
MinusOf(f) == retS = "-" \o RenderedFrom(f) /\ fmtd.desc = f.desc

C7_StringAndGoStringAgree ==
  /\ Renders("Length")
     => \E u \in LengthList :
          /\ LengthString(LengthFormat(recv)) = fmtd.value \o u.symbol
          /\ LengthGoString(LengthFormat(recv)) = fmtd.value \o " * " \o u.name
          /\ retS = Rendered(fmtd.value, u.symbol, u.name)
  /\ Renders("Area")
     => \E u \in AreaList :
          /\ AreaString(AreaFormat(recv)) = fmtd.value \o u.symbol
          /\ AreaGoString(AreaFormat(recv)) = fmtd.value \o " * " \o u.name
          /\ retS = Rendered(fmtd.value, u.symbol, u.name)

\* 0.998 m has been rendered by GoString, and 1234.56 cm^2 by String
C7_Witness ==
  \/ Renders("Length") /\ recv = Lit(998, 1000) /\ retS = "99.8 * Centimeter"
  \/ Renders("Area") /\ unit = "SquareCentimeter" /\ arg = Lit(123456, 100)
     /\ retS = "1234.56cm^2"

\* each accessor with the unit it converts to; a Temperature accessor bears
\* the name of its scale
OwnAccessor ==
  {<<"Meters", "Meter">>, <<"Kilometers", "Kilometer">>, <<"Centimeters", "Centimeter">>,
   <<"Millimeters", "Millimeter">>, <<"Micrometers", "Micrometer">>, <<"Feet", "Foot">>,
   <<"Miles", "Mile">>, <<"Inches", "Inch">>, <<"NauticalMiles", "NauticalMile">>,
   <<"SquareMeters", "SquareMeter">>, <<"SquareKilometers", "SquareKilometer">>,
   <<"Hectares", "Hectare">>, <<"SquareCentimeters", "SquareCentimeter">>,
   <<"SquareMillimeters", "SquareMillimeter">>, <<"SquareFeet", "SquareFoot">>,
   <<"SquareMiles", "SquareMile">>, <<"Acres", "Acre">>, <<"SquareInches", "SquareInch">>,
   <<"MetersPerSecond", "MeterPerSecond">>, <<"KilometersPerHour", "KilometerPerHour">>,
   <<"MilesPerHour", "MilePerHour">>, <<"FeetPerSecond", "FootPerSecond">>,
   <<"Knots", "Knot">>,
   <<"Kelvin", "Kelvin">>, <<"DegreesCelsius", "DegreesCelsius">>,
   <<"DegreesFahrenheit", "DegreesFahrenheit">>, <<"DegreesRankine", "DegreesRankine">>}

Accessors == {p[1] : p \in OwnAccessor}
UnitOfAccessor(a) == (CHOOSE p \in OwnAccessor : p[1] = a)[2]
Scale(name) == (CHOOSE u \in LengthUnits \cup AreaUnits \cup SpeedUnits : u.name = name).unit

Multiplicative == {"Length", "Area", "Speed"}

\* an accessor has returned from a value built as arg * unit, or by a constructor
Converted(ks) == pc = "returned" /\ kind \in ks /\ unit # "" /\ op \in Accessors

E15 == FDiv(FromInt(1), FMul(FromInt(10000000), FromInt(100000000)))
E13 == FMul(FromInt(100), E15)

FLe(a, b) == FGe(b, a)
Least(a, b) == IF FLt(b, a) THEN b ELSE a

\* x and y are the same value, or differ by at most the fraction of the smaller
Within(x, y, fraction) ==
  \/ x = y
  \/ FLe(Mag(FSub(x, y)), FMul(fraction, Least(Mag(x), Mag(y))))

\* the comparison the repository's tests make: the same value, or a difference
\* of at most margin, or of at most the fraction of the smaller
Approx(x, y, fraction, margin) ==
  \/ Within(x, y, fraction)
  \/ FLe(Mag(FSub(x, y)), margin)

\* f is a normal float64: finite, not zero and not subnormal
Normal(f) == IsFinite(f) /\ BBitLen(f.m) = MantBits

\* the conversion has left float64's normal range nowhere: the value x it
\* began with is zero, or x, x * U and the result are normal numbers
InRange == IsZero(arg) \/ (Normal(arg) /\ Normal(recv) /\ Normal(retF))

OwnUnit == Converted(Multiplicative) /\ UnitOfAccessor(op) = unit
OwnScale == Converted({"Temperature"}) /\ op = unit

\* C8 as stated: the accessor for U applied to x * U returns x itself, and a
\* Temperature constructor followed by its own accessor its argument itself.
C8_RoundTripExact ==
  /\ OwnUnit => retF = arg
  /\ OwnScale => retF = arg

\* C8: the accessor for U applied to x * U returns x to within a relative
\* error of 1e-15, for every named unit U of Length, Area and Speed and every
\* x that is zero or such that x, x * U and the result are normal float64
\* numbers (no overflow, no underflow); a Temperature constructor followed by
\* its own accessor returns its argument to within 1e-13, absolute or
\* relative.  (Both may differ from x: 0.1 * Inch is 0.10000000000000002
\* inches, 0.01 degrees Celsius 0.009999999999990905.)
C8_RoundTripWithin ==
  /\ (OwnUnit /\ InRange) => Within(retF, arg, E15)
  /\ OwnScale => Approx(retF, arg, E13, E13)

\* Inches() of 0.1 * Inch and DegreesCelsius() of 0.01 degrees Celsius have
\* returned, neither with the value it was built from
C8_Witness ==
  \/ OwnUnit /\ unit = "Inch" /\ arg = Lit(1, 10) /\ retF # arg
  \/ OwnScale /\ unit = "DegreesCelsius" /\ arg = Lit(1, 100) /\ retF # arg

\* x * (U1 / U2) for the unit U1 the value was built with and the unit U2 of
\* the accessor called
InOtherUnit == FMul(arg, FDiv(Scale(unit), Scale(UnitOfAccessor(op))))

Built(u, x, a) == Converted(Multiplicative) /\ unit = u /\ arg = x /\ op = a

\* C9 as stated: the U2 accessor applied to x * U1 equals x * (U1 / U2), and 60
\* MilePerHour is 88 FootPerSecond.
C9_CrossUnitExact ==
  /\ Converted(Multiplicative) => retF = InOtherUnit
  /\ Built("MilePerHour", FromInt(60), "FeetPerSecond") => retF = FromInt(88)

\* C9: the U2 accessor applied to x * U1 equals x * (U1 / U2) to within a
\* relative error of 1e-15, for any two named units of Length, of Area or of
\* Speed and every x that is zero or such that x, x * U1 and the result are
\* normal float64 numbers (no overflow, no underflow); 1 Foot is 12 Inches and 0.3048 Meters, 1 SquareMile is 640 Acres and
\* 27,878,400 SquareFeet, and 60 MilePerHour is 88 FootPerSecond to within
\* that error (87.99999999999999).
C9_CrossUnitWithin ==
  /\ (Converted(Multiplicative) /\ InRange) => Within(retF, InOtherUnit, E15)
  /\ Built("Foot", FromInt(1), "Inches") => retF = FromInt(12)
  /\ Built("Foot", FromInt(1), "Meters") => retF = Lit(3048, 10000)
  /\ Built("SquareMile", FromInt(1), "Acres") => retF = FromInt(640)
  /\ Built("SquareMile", FromInt(1), "SquareFeet") => retF = FromInt(27878400)
  /\ Built("MilePerHour", FromInt(60), "FeetPerSecond") => Within(retF, FromInt(88), E15)

\* FeetPerSecond() of 60 * MilePerHour has returned, and not 88
C9_Witness == Built("MilePerHour", FromInt(60), "FeetPerSecond") /\ retF # FromInt(88)

Returned(a) == pc = "returned" /\ kind = "Temperature" /\ op = a
FromK(x, a) == Returned(a) /\ unit = "Kelvin" /\ arg = x

C273 == Lit(27315, 100)
F459 == Lit(45967, 100)
R491 == Lit(49167, 100)

\* t.Kelvin() - 273.15, t.DegreesRankine() - 459.67 and 9c/5 + 32 as float64
\* expressions
KelvinLess273 == FSub(FDiv(recv, Kelvin), C273)
RankineLess459 == FSub(FDiv(recv, Rankine), F459)
NineFifthsPlus32 == FAdd(FDiv(FMul(FromInt(9), arg), FromInt(5)), FromInt(32))

\* what holds of the affine scales exactly: Celsius against Kelvin, the size
\* of the Rankine degree, and the fixed points -273.15 C, -459.67 F, 0 R, 0 C
AffineExactly ==
  /\ Returned("DegreesCelsius") => retF = KelvinLess273
  /\ (Returned("Kelvin") /\ unit = "DegreesRankine") => retF = FMul(arg, Lit(5, 9))
  /\ FromK(FZero(0), "DegreesCelsius") => retF = FNeg(C273)
  /\ FromK(FZero(0), "DegreesFahrenheit") => retF = FNeg(F459)
  /\ FromK(FZero(0), "DegreesRankine") => retF = FZero(0)
  /\ FromK(C273, "DegreesCelsius") => retF = FZero(0)

AbsOf(x) == IF kind = "Length" THEN LengthAbs(x) ELSE AreaAbs(x)

\* Abs has returned to a caller holding a Length or an Area
AbsReturned == pc = "returned" /\ kind \in {"Length", "Area"} /\ op = "Abs"

\* the four properties of x.Abs() = r, with the comparisons of float64
AbsLaws(x, r) ==
  /\ FGe(r, FZero(0))
  /\ FEq(r, AbsOf(FNeg(x)))
  /\ FEq(r, x) \/ FEq(r, FNeg(x))
  /\ FEq(AbsOf(r), r)
  /\ IsZero(x) => IsZero(r)

\* C11 as stated: for every Length x and every Area x (NaN is one),
\* x.Abs() >= 0, x.Abs() == (-x).Abs(), x.Abs() is x or -x, and
\* x.Abs().Abs() == x.Abs(); Abs of zero is zero.
C11_AbsEveryValue == AbsReturned => AbsLaws(recv, retF)

\* C11: for every Length x and every Area x that is not NaN, the infinities
\* included, x.Abs() >= 0, x.Abs() == (-x).Abs(), x.Abs() is x or -x, and
\* x.Abs().Abs() == x.Abs(); Abs of zero is zero.  Abs of NaN is NaN, which
\* is neither >= 0 nor equal to anything.
C11_AbsOfNumbers ==
  /\ (AbsReturned /\ ~IsNaN(recv)) => AbsLaws(recv, retF)
  /\ (AbsReturned /\ IsNaN(recv)) => IsNaN(retF)

\* Abs of -3 Acre has returned 3 Acre, and Abs of -Inf m has returned +Inf
C11_Witness ==
  \/ AbsReturned /\ unit = "Acre" /\ arg = FNeg(FromInt(3)) /\ retF = FMul(FromInt(3), Acre)
  \/ AbsReturned /\ kind = "Length" /\ recv = FInf(1) /\ retF = FInf(0)

StartsWith(s, p) == Len(s) >= Len(p) /\ SubSeq(s, 1, Len(p)) = p

\* the text s has a zero integer part
ZeroIntegerPart(s) == StartsWith(s, "0.") \/ StartsWith(s, "-0.")

Unsigned(s) == IF StartsWith(s, "-") THEN SubSeq(s, 2, Len(s)) ELSE s

\* the number text s is in exponent notation and begins with a digit 1..9
Exponential(s) ==
  /\ \E d \in {"1", "2", "3", "4", "5", "6", "7", "8", "9"} : StartsWith(Unsigned(s), d)
  /\ \E i \in 1..Len(s) : SubSeq(s, i, i) = "e"

\* String has returned to a caller holding a Length or an Area that is not 0
StringOfNonZero ==
  pc = "returned" /\ kind \in {"Length", "Area"} /\ op = "String" /\ ~IsZero(recv)

\* the number String displays: recv in the unit of the descriptor it got
Displayed ==
  FDiv(recv, IF kind = "Length" THEN fmtd.desc.length ELSE fmtd.desc.area)

\* no zero integer part: a unit of the list with a number of magnitude at
\* least 1, or the base unit with a number in exponent notation
NoLeadingZero ==
  /\ ~ZeroIntegerPart(retS)
  /\ \/ /\ fmtd.desc \in (IF kind = "Length" THEN LengthList ELSE AreaList)
        /\ FGe(Mag(Displayed), FromInt(1))
     \/ /\ fmtd.desc.name \in {"Meter", "SquareMeter"}
        /\ Exponential(fmtd.value)

\* C12 as stated: for every non-zero Length and every non-zero Area (NaN is
\* one), the number String renders has no zero integer part: a listed unit
\* was selected and the number displayed is at least 1 in magnitude, or the
\* base unit with exponent notation and a non-zero leading digit.
C12_NoLeadingZeroEveryValue == StringOfNonZero => NoLeadingZero

\* C12: for every non-zero Length and every non-zero Area that is not NaN,
\* the number String renders has no zero integer part: a listed unit was
\* selected and the number displayed is at least 1 in magnitude, or the base
\* unit with exponent notation and a non-zero leading digit; 0.2 km is
\* "200m" and 0.9e9 m is "9e+08m".  NaN is rendered "NaNm" and "NaNm^2":
\* no zero integer part, but neither a number >= 1 nor exponent notation.
C12_NoLeadingZero ==
  /\ (StringOfNonZero /\ ~IsNaN(recv)) => NoLeadingZero
  /\ (StringOfNonZero /\ IsNaN(recv)) => retS \in {"NaNm", "NaNm^2"}
  /\ (StringOfNonZero /\ unit = "Kilometer" /\ arg = Lit(2, 10)) => retS = "200m"
  /\ (StringOfNonZero /\ kind = "Length" /\ recv = Lit(900000000, 1)) => retS = "9e+08m"

\* 0.2 km has been rendered as "200m", and 0.9e9 m as "9e+08m"
C12_Witness ==
  \/ StringOfNonZero /\ unit = "Kilometer" /\ arg = Lit(2, 10) /\ retS = "200m"
  \/ StringOfNonZero /\ kind = "Length" /\ recv = Lit(900000000, 1) /\ retS = "9e+08m"

\* String has returned to a caller holding 0.9 * SquareMillimeter
NineTenthsSquareMillimeter ==
  /\ pc = "returned"
  /\ kind = "Area"
  /\ op = "String"
  /\ unit = "SquareMillimeter"
  /\ arg = Lit(9, 10)

\* C13 as stated: String renders an Area of 0.9 SquareMillimeter as exactly
\* "9e-7m^2".
C13_NineTenthsOneDigit == NineTenthsSquareMillimeter => retS = "9e-7m^2"

\* C13: String renders an Area of 0.9 SquareMillimeter, which is below the
\* smallest listed unit, in square meters in exponent notation, as exactly
\* "9e-07m^2": the exponent has two digits.
C13_NineTenthsTwoDigits ==
  NineTenthsSquareMillimeter
  => /\ FLt(Mag(recv), SquareMillimeter)
     /\ fmtd.desc.name = "SquareMeter"
     /\ fmtd.value = "9e-07"
     /\ retS = "9e-07m^2"

\* 0.9 mm^2 has been rendered in square meters
C13_Witness == NineTenthsSquareMillimeter /\ fmtd.desc.symbol = "m^2" /\ retS = "9e-07m^2"

\* the suffix String and GoString put after the number of a Speed or of a
\* Temperature
BaseSuffix ==
  IF kind = "Speed"
    THEN (IF op = "String" THEN " m/s" ELSE " * MeterPerSecond")
    ELSE (IF op = "String" THEN " K" ELSE " * Kelvin")

\* String has returned s to a caller that built its value as x * u (or with
\* the constructor u)
StringOf(k, u, x, s) ==
  (Renders(k) /\ op = "String" /\ unit = u /\ arg = x) => retS = s

\* C14: String and GoString of every Speed and of every Temperature,
\* whatever its magnitude, its sign and the unit or constructor it was built
\* with, render the value in the base unit and nothing else: the number of
\* meters per second followed by " m/s" or " * MeterPerSecond", the number
\* of Kelvin followed by " K" or " * Kelvin".
C14_BaseUnitOnly ==
  /\ (Renders("Speed") \/ Renders("Temperature")) => retS = FmtG(recv) \o BaseSuffix
  /\ (Renders("Speed") /\ op = "String" /\ unit = "") => retS = "0 m/s"
  /\ StringOf("Speed", "MeterPerSecond", Lit(1, 1000), "0.001 m/s")
  /\ StringOf("Speed", "MeterPerSecond", FromInt(299792458), "2.99792458e+08 m/s")
  /\ StringOf("Temperature", "DegreesRankine", Lit(45967, 100), "255.37222222222223 K")
  /\ StringOf("Temperature", "DegreesCelsius", FZero(0), "273.15 K")

\* the speed of light has been rendered in meters per second, and 459.67
\* Rankine in Kelvin
C14_Witness ==
  \/ Renders("Speed") /\ unit = "MeterPerSecond" /\ arg = FromInt(299792458)
     /\ retS = "2.99792458e+08 m/s"
  \/ Renders("Temperature") /\ unit = "DegreesRankine" /\ arg = Lit(45967, 100)
     /\ retS = "255.37222222222223 K"

\* PerTime has returned from a call with the duration 0
PerTimeOfZero ==
  pc = "returned" /\ kind = "Length" /\ op = "PerTime" /\ dur = [sec |-> 0, nsec |-> 0]

\* a Temperature constructor has been given x degrees of scale u
Constructed(u) == kind = "Temperature" /\ unit = u

\* C15: no operation has an error outcome.  PerTime with a zero duration
\* returns a Speed: +Inf for l > 0, -Inf for l < 0 and NaN for l = 0 (and
\* for l NaN), never a finite one; the Temperature constructors take what
\* they are given:
\* TemperatureFromDegreesCelsius(c) with c < -273.15 is a Temperature below
\* 0 Kelvin, and so is TemperatureFromDegreesFahrenheit(f) with f < -459.67.
C15_NoErrorOutcome ==
  /\ (PerTimeOfZero /\ FGt(recv, FZero(0))) => retF = FInf(0)
  /\ (PerTimeOfZero /\ FLt(recv, FZero(0))) => retF = FInf(1)
  /\ (PerTimeOfZero /\ FEq(recv, FZero(0))) => IsNaN(retF)
  /\ (PerTimeOfZero /\ IsNaN(recv)) => IsNaN(retF)
  /\ PerTimeOfZero => retF.k \in {"inf", "nan"}
  /\ (Constructed("DegreesCelsius") /\ FLt(arg, FNeg(C273))) => FLt(recv, FZero(0))
  /\ (Constructed("DegreesFahrenheit") /\ FLt(arg, FNeg(F459))) => FLt(recv, FZero(0))
  /\ (Returned("Kelvin") /\ unit = "DegreesCelsius" /\ FLt(arg, FNeg(C273)))
     => FLt(retF, FZero(0))

\* PerTime(0) of 3 meters has returned +Inf, and Kelvin() of -459.67 degrees
\* Celsius a negative number
C15_Witness ==
  \/ PerTimeOfZero /\ recv = FromInt(3) /\ retF = FInf(0)
  \/ Returned("Kelvin") /\ unit = "DegreesCelsius" /\ arg = FNeg(F459) /\ FLt(retF, FZero(0))

\* the number of characters of the number text s before its point or exponent
IntegerDigits(s) ==
  LET u == Unsigned(s)
      stops == {i \in 1..Len(u) : SubSeq(u, i, i) \in {".", "e"}}
  IN  IF stops = {} THEN Len(u)
      ELSE (CHOOSE i \in stops : \A j \in stops : i <= j) - 1

\* String or GoString of a Length has returned, and format() took the
\* descriptor in its loop: 1 Micrometer <= |l| < 1000 Kilometer
ListedLength ==
  Renders("Length") /\ FGe(Mag(recv), Micrometer) /\ FLt(Mag(recv), LengthBypass)

\* the bound of the number displayed with each unit of the list
Below(symbol) ==
  IF symbol = "cm" THEN FromInt(100) ELSE IF symbol = "mm" THEN FromInt(10) ELSE FromInt(1000)

\* C16: whenever format() selects a unit U of the list for a Length l, the
\* number displayed, |l| / U, is at least 1 and below 1000 (below 1000 for km,
\* m and µm, below 100 for cm, below 10 for mm), and its text has at most
\* three integer digits; a number of magnitude >= 1000 or < 1 is displayed
\* only with the symbol "m" of the base unit, by the bypass or the fallback.
C16_AtMostThreeIntegerDigits ==
  /\ ListedLength
     => /\ FGe(Mag(FDiv(recv, fmtd.desc.length)), FromInt(1))
        /\ FLt(Mag(FDiv(recv, fmtd.desc.length)), Below(fmtd.desc.symbol))
        /\ IntegerDigits(fmtd.value) \in 1..3
        /\ fmtd.value = FmtG(FDiv(recv, fmtd.desc.length))
  /\ (/\ Renders("Length")
      /\ \/ FGe(Mag(FDiv(recv, fmtd.desc.length)), FromInt(1000))
         \/ FLt(Mag(FDiv(recv, fmtd.desc.length)), FromInt(1)))
     => /\ fmtd.desc.symbol = "m"
        /\ ~ListedLength
  /\ (Renders("Length") /\ IsFinite(recv)) => IntegerDigits(fmtd.value) \in 1..3

\* the float64 just below 1000 Kilometer has been rendered in kilometers,
\* and the one just below 1 Meter in centimeters
C16_Witness ==
  \/ ListedLength /\ recv = FStep(LengthBypass, 0 - 1) /\ fmtd.desc.symbol = "km"
  \/ ListedLength /\ recv = FStep(Meter, 0 - 1) /\ fmtd.desc.symbol = "cm"

\* PerTime has returned from a call with a duration that is not 0
PerTimeReturned ==
  pc = "returned" /\ kind = "Length" /\ op = "PerTime" /\ dur # [sec |-> 0, nsec |-> 0]

\* PerTime has returned from the call (1 * u).PerTime(sec seconds)
OnePer(u, sec) ==
  PerTimeReturned /\ unit = u /\ arg = FromInt(1) /\ dur = [sec |-> sec, nsec |-> 0]

\* C17: PerTime(d) with d not 0 returns the Speed whose MetersPerSecond() is
\* l.Meters() divided by d in seconds, and it agrees with the Speed
\* constants: 1 Kilometer per hour is KilometerPerHour, 1 Mile per hour
\* MilePerHour, 1 NauticalMile per hour Knot, 1 Foot per second
\* FootPerSecond; KilometerPerHour is 1000/3600 m/s, MilePerHour 0.44704 m/s
\* and Knot 1852/3600 m/s.
C17_PerTimeAgreesWithSpeeds ==
  /\ PerTimeReturned => FDiv(retF, MeterPerSecond) = FDiv(FDiv(recv, Meter), Seconds(dur))
  /\ OnePer("Kilometer", 3600) => retF = KilometerPerHour
  /\ OnePer("Mile", 3600) => retF = MilePerHour
  /\ OnePer("NauticalMile", 3600) => retF = Knot
  /\ OnePer("Foot", 1) => retF = FootPerSecond
  /\ OnePer("Kilometer", 3600) => retF = FDiv(FromInt(1000), FromInt(3600))
  /\ OnePer("Mile", 3600) => retF = FDiv(FromInt(44704), FromInt(100000))
  /\ OnePer("NauticalMile", 3600) => retF = FDiv(FromInt(1852), FromInt(3600))

\* 1 Mile per hour has been computed, and it is MilePerHour
C17_Witness == OnePer("Mile", 3600) /\ retF = MilePerHour

\* the scales of the two tables, in the order of the tables
LengthScales == [i \in 1..Len(unitThresholds) |-> unitThresholds[i].length]

AreaScales == [i \in 1..Len(areaUnitThresholds) |-> areaUnitThresholds[i].area]

StrictlyDescending(s) == \A i \in 1..(Len(s) - 1) : FGt(s[i], s[i + 1])

\* both tables descend strictly and begin with the kilometer descriptors
TablesDescending ==
  /\ Len(unitThresholds) > 0
  /\ unitThresholds[1] = kmDesc
  /\ kmDesc.length = Kilometer
  /\ StrictlyDescending(LengthScales)
  /\ Len(areaUnitThresholds) > 0
  /\ areaUnitThresholds[1] = squareKmDesc
  /\ squareKmDesc.area = SquareKilometer
  /\ StrictlyDescending(AreaScales)

\* caller c has returned from String, from Abs
Stringed(c) == pc[c].at = "returned" /\ op[c] = "String"

AbsDone(c) == pc[c].at = "returned" /\ op[c] = "Abs"

\* the table of caller c's kind, and the scale of one of its descriptors
Table(c) == IF kind[c] = "Length" THEN unitThresholds ELSE areaUnitThresholds

ScaleOf(c, desc) == IF kind[c] = "Length" THEN desc.length ELSE desc.area

\* the places of the table whose scale the magnitude of c's value reaches
Matching(c) == {i \in 1..Len(Table(c)) : FGe(Mag(recv[c]), ScaleOf(c, Table(c)[i]))}

\* c's value is beyond the table: format() returns before the scan
Bypassed(c) ==
  IF kind[c] = "Length"
    THEN FGe(Mag(recv[c]), FMul(FromInt(1000), Kilometer))
    ELSE FGt(Mag(recv[c]), FMul(FromInt(1000000), SquareKilometer))

\* a scan that matched returned the largest of the matching units
LargestMatching(c) ==
  (Stringed(c) /\ ~Bypassed(c) /\ Matching(c) # {}) =>
    \E i \in Matching(c) :
      /\ fmtd[c].desc = Table(c)[i]
      /\ \A j \in Matching(c) : FGe(ScaleOf(c, Table(c)[i]), ScaleOf(c, Table(c)[j]))

\* what c got is what a caller on its own gets
AsAlone(c) ==
  /\ Stringed(c) =>
       /\ fmtd[c] = IF kind[c] = "Length" THEN LengthFormat(recv[c])
                                          ELSE AreaFormat(recv[c])
       /\ retS[c] = fmtd[c].value \o fmtd[c].desc.symbol
  /\ AbsDone(c) => retF[c] = Mag(recv[c])

\* two callers that called the same operation on the same value got the same
SameForSame ==
  \A c, d \in Callers :
    (/\ pc[c].at = "returned"
     /\ pc[d].at = "returned"
     /\ op[c] = op[d]
     /\ kind[c] = kind[d]
     /\ recv[c] = recv[d])
      => (retS[c] = retS[d] /\ fmtd[c] = fmtd[d] /\ retF[c] = retF[d])

====
